---- MODULE Spec2Model ----
(***************************************************************************)
(* A model of winepath: the drive table of a WineConfig and the two        *)
(* conversions built on it (src/src/lib.rs), and the command-line example  *)
(* (src/examples/winepath.rs).                                             *)
(*                                                                         *)
(* A path or a string is a sequence of one-character strings.  A native    *)
(* path is kept as the text the PathBuf holds; its components are computed *)
(* from the text the way std::path does on a POSIX host, so that two texts *)
(* of one path ("/a" and "/a/") are different values that compare equal    *)
(* only through PathEq.                                                    *)
(***************************************************************************)
EXTENDS Integers, Sequences, FiniteSets, TLC

\* ------------------------------------------------------------------ bounds

\* Longest native path text handed to to_wine_path (Spec).
MaxNativeLen == 4
\* Longest text after the two-character head of a Wine path (Spec).
MaxRestLen == 4
\* The same two lengths for SpecSeq, where calls follow each other freely.
SeqNativeLen == 1
SeqRestLen == 0

\* ------------------------------------------------------------- characters

\* A byte that is not valid UTF-8 (it can occur in an OsStr, never in a str).
BadByte == "0xFF"

Lower == <<"a", "b", "c", "d", "e", "f", "g", "h", "i", "j", "k", "l", "m",
           "n", "o", "p", "q", "r", "s", "t", "u", "v", "w", "x", "y", "z">>
Upper == <<"A", "B", "C", "D", "E", "F", "G", "H", "I", "J", "K", "L", "M",
           "N", "O", "P", "Q", "R", "S", "T", "U", "V", "W", "X", "Y", "Z">>

\* The code point of a character (the u8 of an ASCII character).
Ord(c) ==
    IF \E i \in 1..26 : Lower[i] = c THEN 96 + (CHOOSE i \in 1..26 : Lower[i] = c)
    ELSE IF \E i \in 1..26 : Upper[i] = c THEN 64 + (CHOOSE i \in 1..26 : Upper[i] = c)
    ELSE CASE c = ":" -> 58
           [] c = "\\" -> 92
           [] c = "/" -> 47
           [] c = "." -> 46
           [] c = "-" -> 45
           [] OTHER -> 255

\* char::from(u8), for the letters.
Chr(n) ==
    IF n \in 97..122 THEN Lower[n - 96]
    ELSE IF n \in 65..90 THEN Upper[n - 64]
    ELSE BadByte

is_ascii_alphabetic(c) == Ord(c) \in (65..90) \cup (97..122)

to_ascii_lowercase(c) == IF Ord(c) \in 65..90 THEN Chr(Ord(c) + 32) ELSE c

\* ------------------------------------------------------------ option, result

None == <<>>
Some(x) == <<x>>

Ok(v) == [tag |-> "Ok", val |-> v, err |-> "none"]
Err(e) == [tag |-> "Err", val |-> <<>>, err |-> e]
Panic(msg) == [tag |-> "Panic", val |-> <<>>, err |-> msg]
NoResult == [tag |-> "none", val |-> <<>>, err |-> "none"]

NoDrive == "NoDrive"
PrefixNotFound == "PrefixNotFound"

\* ---------------------------------------------------------- std::path, str

\* str::split(sep): the pieces between the separators, at least one.
RECURSIVE Split(_, _)
Split(s, sep) ==
    IF s = <<>> THEN << <<>> >>
    ELSE LET r == Split(Tail(s), sep)
         IN  IF Head(s) = sep THEN << <<>> >> \o r
             ELSE << <<Head(s)>> \o r[1] >> \o Tail(r)

RootDir == [kind |-> "RootDir", part |-> <<>>]
CurDir == [kind |-> "CurDir", part |-> <<>>]
ParentDir == [kind |-> "ParentDir", part |-> <<>>]
Normal(p) == [kind |-> "Normal", part |-> p]

\* One piece between two separators as a component.
ParseComponent(piece) == IF piece = <<".", ".">> THEN ParentDir ELSE Normal(piece)

\* Path::components() on a POSIX host: the root, then the names; repeated
\* separators and "." are skipped, except a "." that starts a relative path.
Components(path) ==
    LET pieces == Split(path, "/")
        hasRoot == path # <<>> /\ path[1] = "/"
        includeCurDir == ~hasRoot /\ pieces[1] = <<".">>
        names == SelectSeq(pieces, LAMBDA p : p # <<>> /\ p # <<".">>)
        front == IF hasRoot THEN <<RootDir>>
                 ELSE IF includeCurDir THEN <<CurDir>> ELSE <<>>
    IN  front \o [i \in 1..Len(names) |-> ParseComponent(names[i])]

\* Path equality (PartialEq for Path): by components.
PathEq(p, q) == Components(p) = Components(q)

\* Component::as_os_str.
ComponentText(c) ==
    CASE c.kind = "RootDir" -> <<"/">>
      [] c.kind = "CurDir" -> <<".">>
      [] c.kind = "ParentDir" -> <<".", ".">>
      [] OTHER -> c.part

\* Components::as_path of the components left after a prefix: their text,
\* one separator between two of them.
RECURSIVE AsPath(_)
AsPath(comps) ==
    IF comps = <<>> THEN <<>>
    ELSE IF Len(comps) = 1 THEN ComponentText(comps[1])
    ELSE ComponentText(comps[1]) \o <<"/">> \o AsPath(Tail(comps))

\* A faulty variant of starts_with: the text of base begins the text of path.
StartsWithTextual(path, base) ==
    Len(base) <= Len(path) /\ SubSeq(path, 1, Len(base)) = base

\* Path::starts_with: base's components begin path's components.
StartsWith(path, base) ==
    LET pc == Components(path)
        bc == Components(base)
    IN  Len(bc) <= Len(pc) /\ SubSeq(pc, 1, Len(bc)) = bc

\* A faulty variant of strip_prefix: it compares text, not components.
StripPrefixTextual(path, base) ==
    IF StartsWithTextual(path, base)
    THEN Some(SubSeq(path, Len(base) + 1, Len(path)))
    ELSE None

\* Path::strip_prefix(base): Some(the rest of the path) when base's
\* components begin path's components, None otherwise.
StripPrefix(path, base) ==
    LET pc == Components(path)
        bc == Components(base)
    IN  IF StartsWith(path, base)
        THEN Some(AsPath(SubSeq(pc, Len(bc) + 1, Len(pc))))
        ELSE None

\* A faulty variant of push: it never writes a separator.
PushNoSeparator(buf, part) == buf \o part

\* PathBuf::push(part): an absolute part replaces the buffer; otherwise the
\* part is appended, after a separator unless the buffer is empty or ends
\* with one.

Push(buf, part) ==
    IF part # <<>> /\ part[1] = "/" THEN part
    ELSE IF buf # <<>> /\ buf[Len(buf)] # "/" THEN buf \o <<"/">> \o part
    ELSE buf \o part

\* ------------------------------------------------------------ src/src/lib.rs

ASCII_A == 97

\* A faulty variant of drive_to_index: the letter is not lower-cased, and the
\* u8 subtraction wraps for an upper-case one.
drive_to_index_case_sensitive(drive) == (Ord(drive) - ASCII_A) % 256

\* drive_to_index; its assertion holds at both call sites (from_prefix passes
\* a..z, to_native_path_inner asserts the letter first).

drive_to_index(drive) == (Ord(to_ascii_lowercase(drive)) - ASCII_A) % 256

index_to_drive(index) == Chr(ASCII_A + index)

\* The 26 slots.
Slots == 0..25

\* DriveCache::get: the slot of the letter, None when the slot is empty (or
\* the index lies outside the array).
DriveCacheGet(cache, drive_letter) ==
    LET index == drive_to_index(drive_letter)
    IN  IF index \in Slots THEN cache[index] ELSE None

\* A faulty variant of iter: from z down to a.
DriveCacheIterDescending(cache) ==
    LET all == [i \in 1..26 |-> <<index_to_drive(26 - i), cache[26 - i]>>]
        full == SelectSeq(all, LAMBDA e : e[2] # None)
    IN  [i \in 1..Len(full) |-> <<full[i][1], full[i][2][1]>>]

\* DriveCache::iter: the populated slots as (letter, path) pairs, from a to z.
DriveCacheIter(cache) ==
    LET all == [i \in 1..26 |-> <<index_to_drive(i - 1), cache[i - 1]>>]
        full == SelectSeq(all, LAMBDA e : e[2] # None)
    IN  [i \in 1..Len(full) |-> <<full[i][1], full[i][2][1]>>]

\* What the filesystem answers for one `dosdevices/<letter>:` entry.
NoLink == [link |-> FALSE, target |-> None]
BrokenLink == [link |-> TRUE, target |-> None]
LinkTo(dir) == [link |-> TRUE, target |-> Some(dir)]

\* DriveCache::from_prefix: a slot is filled when read_link and canonicalize
\* both succeed, and stays empty otherwise.
DriveCacheFromPrefix(fs) ==
    [i \in Slots |->
        IF fs[drive_to_index(index_to_drive(i))].link
        THEN fs[drive_to_index(index_to_drive(i))].target
        ELSE None]

\* stringify_path: the drive prefix, then one piece per component, joined by
\* backslashes; a name that is not UTF-8 aborts.
RECURSIVE JoinBackslash(_)
JoinBackslash(parts) ==
    IF Len(parts) = 1 THEN parts[1]
    ELSE parts[1] \o <<"\\">> \o JoinBackslash(Tail(parts))

PartText(c) ==
    CASE c.kind = "RootDir" -> <<>>
      [] c.kind = "CurDir" -> <<".">>
      [] c.kind = "ParentDir" -> <<".", ".">>
      [] OTHER -> c.part

\* A faulty variant of stringify_path: a separator ends the text.
stringify_path_trailing(drive_prefix, path) ==
    LET comps == Components(path)
    IN  Ok(JoinBackslash(<<drive_prefix>> \o [i \in 1..Len(comps) |-> PartText(comps[i])]
                         \o << <<>> >>))

\* stringify_path.
stringify_path(drive_prefix, path) ==
    LET comps == Components(path)
    IN  IF \E i \in 1..Len(comps) :
              comps[i].kind = "Normal" /\ \E k \in 1..Len(comps[i].part) :
                                              comps[i].part[k] = BadByte
        THEN Panic("path is not utf-8")
        ELSE Ok(JoinBackslash(<<drive_prefix>>
                              \o [i \in 1..Len(comps) |-> PartText(comps[i])]))

\* WineConfig::find_drive_root: the first populated slot, in iteration
\* order, whose directory strip_prefix accepts.
RECURSIVE FindIn(_, _)
FindIn(entries, path) ==
    IF entries = <<>> THEN [found |-> FALSE, drive |-> <<>>, remaining |-> <<>>]
    ELSE LET remaining == StripPrefix(path, entries[1][2])
         IN  IF remaining # None
             THEN [found |-> TRUE, drive |-> <<entries[1][1], ":">>,
                   remaining |-> remaining[1]]
             ELSE FindIn(Tail(entries), path)

find_drive_root(cache, path) == FindIn(DriveCacheIter(cache), path)

\* WineConfig::to_wine_path_inner.
to_wine_path_inner(cache, path) ==
    LET r == find_drive_root(cache, path)
    IN  IF r.found THEN stringify_path(r.drive, r.remaining) ELSE Err(NoDrive)

\* The loop of to_native_path_inner: push every part, left to right.
RECURSIVE PushAll(_, _)
PushAll(buf, parts) ==
    IF parts = <<>> THEN buf ELSE PushAll(Push(buf, parts[1]), Tail(parts))

\* A faulty variant of to_native_path_inner: a malformed path is answered
\* with NoDrive instead of an abort.
to_native_path_inner_lenient(cache, path) ==
    IF Len(path) < 2 \/ ~(is_ascii_alphabetic(path[1]) /\ path[2] = ":")
    THEN Err(NoDrive)
    ELSE LET native_root == DriveCacheGet(cache, path[1])
         IN  IF native_root # None
             THEN Ok(PushAll(native_root[1], Split(SubSeq(path, 3, Len(path)), "\\")))
             ELSE Err(NoDrive)

\* WineConfig::to_native_path_inner.
to_native_path_inner(cache, path) ==
    IF Len(path) < 2 THEN Panic("assertion failed: path.len() >= 2")
    ELSE IF ~(is_ascii_alphabetic(path[1]) /\ path[2] = ":")
    THEN Panic("assertion failed: drive prefix")
    ELSE LET native_root == DriveCacheGet(cache, path[1])
         IN  IF native_root # None
             THEN Ok(PushAll(native_root[1], Split(SubSeq(path, 3, Len(path)), "\\")))
             ELSE Err(NoDrive)

\* --------------------------------------------------- src/examples/winepath.rs

FlagU == <<"-", "u">>
FlagW == <<"-", "w">>

\* A faulty variant of the argument parsing: the two flags swapped.
ParseArgsSwapped(args) ==
    LET first == IF Len(args) >= 1 THEN Some(args[1]) ELSE None
        action == IF first = Some(FlagU) THEN "ToWindows" ELSE "ToUnix"
        path == IF first # None /\ first[1] # FlagU /\ first[1] # FlagW THEN first
                ELSE IF Len(args) >= 2 THEN Some(args[2]) ELSE None
    IN  [usage |-> first = None \/ path = None, action |-> action,
         path |-> IF path = None THEN <<>> ELSE path[1]]

\* main, lines 10-29: the action and the path picked from the arguments.
ParseArgs(args) ==
    LET first == IF Len(args) >= 1 THEN Some(args[1]) ELSE None
        action == IF first = Some(FlagW) THEN "ToWindows" ELSE "ToUnix"
        path == IF first # None /\ first[1] # FlagU /\ first[1] # FlagW THEN first
                ELSE IF Len(args) >= 2 THEN Some(args[2]) ELSE None
    IN  [usage |-> first = None \/ path = None, action |-> action,
         path |-> IF path = None THEN <<>> ELSE path[1]]

\* canonicalize() and the printing of main, lines 31-38: the conversion the
\* action selects, unwrapped.
Unwrap(r) == IF r.tag = "Ok" THEN r ELSE Panic("unwrap")

NoCli == [action |-> "none", conv |-> "none", canonicalized |-> FALSE,
          converted |-> <<>>]

\* ------------------------------------------------------------------ inputs

Strings(S, n) == UNION {[1..k -> S] : k \in 0..n}

NativeChars == {"/", "a", ".", "\\", BadByte}
RestChars == {"\\", "/", "a", "b", "."}

\* Canonical directories a drive link can resolve to (absolute, no ".",
\* "..", repeated or trailing separator).
Dirs == {<<"/">>, <<"/", "a">>, <<"/", "a", "a">>, <<"/", "a", "/", "a">>}

\* The letters whose links the modelled filesystems may hold.
LinkLetters == {"c", "d"}

FsEntries == {NoLink, BrokenLink} \cup {LinkTo(d) : d \in Dirs}

FsStates ==
    {[i \in Slots |-> IF index_to_drive(i) \in LinkLetters
                      THEN f[index_to_drive(i)] ELSE NoLink] :
        f \in [LinkLetters -> FsEntries]}

ValidHeads == {<<"c", ":">>, <<"C", ":">>, <<"d", ":">>}
MalformedHeads == {<<>>, <<"c">>, <<":">>, <<"c", "c">>, <<":", "c">>,
                   <<"\\", ":">>, <<"c", "\\">>}

\* Every text after a valid head; a malformed head is followed by at most one
\* character, what follows it being never read.
WinePathsUpTo(n) ==
    {h \o r : h \in ValidHeads, r \in Strings(RestChars, n)}
        \cup {h \o r : h \in MalformedHeads,
                        r \in Strings(RestChars, IF n < 1 THEN n ELSE 1)}

NativePaths == Strings(NativeChars, MaxNativeLen)
WinePaths == WinePathsUpTo(MaxRestLen)
SeqNativePaths == Strings(NativeChars, SeqNativeLen)
SeqWinePaths == WinePathsUpTo(SeqRestLen)

\* Command lines: no argument, one, or two.
MainPaths == {<<"c", ":", "\\", "a">>, <<"C", ":">>, <<"d", ":", "\\", "a", "/", "b">>,
              <<"c">>, <<"/", "a">>, <<"/", "a", "/", "a">>, <<"a">>}
Argvs ==
    {<<>>} \cup {<<t>> : t \in {FlagU, FlagW} \cup MainPaths}
           \cup {<<f, t>> : f \in {FlagU, FlagW} \cup MainPaths, t \in MainPaths}

\* What canonicalize can answer: an error, or a canonical path.
CanonOutcomes == {None} \cup {Some(d) : d \in Dirs}

PrefixDir == <<"/", "w">>

\* ------------------------------------------------------------------- state

VARIABLES
    prefix,       \* WineConfig.prefix
    drive_cache,  \* WineConfig.drive_cache.drives: slot -> Option<path>
    op,           \* the last call: "none", "prefix", "to_wine_path",
                  \* "to_native_path", "main"
    arg,          \* its argument
    res,          \* its result
    origin,       \* Some(the argument of the call before), when the last call
                  \* was given that call's result; None otherwise
    prev,         \* the kind and the outcome of the call before
    argv,         \* the arguments of the last run of main
    cli           \* what that run selected

vars == <<prefix, drive_cache, op, arg, res, origin, prev, argv, cli>>

\* WineConfig::from_prefix: the prefix as given, the cache as built.
Init ==
    /\ prefix = PrefixDir
    /\ \E fs \in FsStates : drive_cache = DriveCacheFromPrefix(fs)
    /\ op = "none"
    /\ arg = <<>>
    /\ res = NoResult
    /\ origin = None
    /\ prev = [op |-> "none", tag |-> "none"]
    /\ argv = <<>>
    /\ cli = NoCli

\* A panic aborts the process: no call follows it.
Running == res.tag # "Panic"

Record(newOp, a, r, org) ==
    /\ op' = newOp
    /\ arg' = a
    /\ res' = r
    /\ origin' = org
    /\ prev' = [op |-> op, tag |-> res.tag]
    /\ argv' = <<>>
    /\ cli' = NoCli

\* WineConfig::prefix.
Prefix ==
    /\ Running
    /\ Record("prefix", <<>>, Ok(prefix), None)
    /\ UNCHANGED <<prefix, drive_cache>>

\* WineConfig::to_wine_path.
ToWinePath(path, org) ==
    /\ Running
    /\ Record("to_wine_path", path, to_wine_path_inner(drive_cache, path), org)
    /\ UNCHANGED <<prefix, drive_cache>>

\* A faulty variant of to_native_path: a miss fills the slot it looked up.
ToNativePathFillingSlot(path, org) ==
    /\ Running
    /\ Record("to_native_path", path, to_native_path_inner(drive_cache, path), org)
    /\ drive_cache' =
         IF Len(path) >= 2 /\ is_ascii_alphabetic(path[1])
            /\ DriveCacheGet(drive_cache, path[1]) = None
         THEN [drive_cache EXCEPT ![drive_to_index(path[1])] = Some(prefix)]
         ELSE drive_cache
    /\ UNCHANGED prefix

\* WineConfig::to_native_path.
ToNativePath(path, org) ==
    /\ Running
    /\ Record("to_native_path", path, to_native_path_inner(drive_cache, path), org)
    /\ UNCHANGED <<prefix, drive_cache>>

\* main of the example: the arguments parsed, the converter built from the
\* environment (envOk: from_env succeeds), the path canonicalized (canon: the
\* filesystem's answer) for ToWindows, the selected conversion unwrapped.
Main(args, envOk, canon) ==
    LET parsed == ParseArgs(args)
        toUnix == parsed.action = "ToUnix"
        ran == ~parsed.usage /\ envOk
        out == IF parsed.usage THEN Panic("usage: winepath [OPTION] [PATH]")
               ELSE IF ~envOk THEN Unwrap(Err(PrefixNotFound))
               ELSE IF toUnix THEN Unwrap(to_native_path_inner(drive_cache, parsed.path))
               ELSE IF canon = None THEN Panic("unwrap")
               ELSE Unwrap(to_wine_path_inner(drive_cache, canon[1]))
    IN  /\ op = "none"
        /\ op' = "main"
        /\ arg' = parsed.path
        /\ res' = out
        /\ origin' = None
        /\ prev' = [op |-> op, tag |-> res.tag]
        /\ argv' = args
        /\ cli' = [action |-> parsed.action,
                   conv |-> IF ~ran THEN "none"
                            ELSE IF toUnix THEN "to_native_path"
                            ELSE IF canon = None THEN "none" ELSE "to_wine_path",
                   canonicalized |-> ran /\ ~toUnix,
                   converted |-> IF ~ran THEN <<>>
                                 ELSE IF toUnix THEN parsed.path
                                 ELSE IF canon = None THEN <<>> ELSE canon[1]]
        /\ UNCHANGED <<prefix, drive_cache>>

\* ---------------------------------------------------------- specifications

\* Spec: one call on a fresh converter, with the larger inputs, optionally
\* followed by the opposite conversion of its result.
CallToWinePath == op = "none" /\ \E p \in NativePaths : ToWinePath(p, None)

CallToNativePath == op = "none" /\ \E w \in WinePaths : ToNativePath(w, None)

BackToNative ==
    /\ op = "to_wine_path" /\ res.tag = "Ok" /\ origin = None
    /\ ToNativePath(res.val, Some(arg))

BackToWine ==
    /\ op = "to_native_path" /\ res.tag = "Ok" /\ origin = None
    /\ ToWinePath(res.val, Some(arg))

\* prefix() on the converter, before or after a conversion (main is a
\* process of its own and exposes no converter).
GetPrefix == op # "prefix" /\ op # "main" /\ Prefix

RunMain ==
    \E args \in Argvs, envOk \in BOOLEAN, canon \in CanonOutcomes :
        Main(args, envOk, canon)

Next ==
    \/ CallToWinePath
    \/ CallToNativePath
    \/ BackToNative
    \/ BackToWine
    \/ GetPrefix
    \/ RunMain

Spec == Init /\ [][Next]_vars

\* SpecSeq: calls in any order and number, with the smaller inputs.
SeqToWinePath == \E p \in SeqNativePaths : ToWinePath(p, None)

SeqToNativePath == \E w \in SeqWinePaths : ToNativePath(w, None)

SeqPrefix == Prefix

NextSeq ==
    \/ SeqToWinePath
    \/ SeqToNativePath
    \/ SeqPrefix

SpecSeq == Init /\ [][NextSeq]_vars

\* ------------------------------------------------------------------ claims

\* The slot a drive letter names, whatever its case.
SlotOf(c) == CHOOSE i \in Slots : Lower[i + 1] = c \/ Upper[i + 1] = c

IsLetter(c) == \E i \in 1..26 : Lower[i] = c \/ Upper[i] = c

\* The same letter in the other case.
OtherCase(c) ==
    IF \E i \in 1..26 : Lower[i] = c THEN Upper[SlotOf(c) + 1] ELSE Lower[SlotOf(c) + 1]

\* A Wine path with a well-formed `<letter>:` head.
ValidHead(w) == Len(w) >= 2 /\ IsLetter(w[1]) /\ w[2] = ":"

Mapped(i) == drive_cache[i] # None

\* Directory d equals path p or is a whole-component ancestor of it.
AncestorOrEqual(d, p) ==
    LET dc == Components(d)
        pc == Components(p)
    IN  Len(dc) <= Len(pc) /\ \A k \in 1..Len(dc) : dc[k] = pc[k]

StrictAncestor(d, p) ==
    AncestorOrEqual(d, p) /\ Len(Components(d)) < Len(Components(p))

\* The slots whose directory matches path p.
Matching(p) == {i \in Slots : Mapped(i) /\ AncestorOrEqual(drive_cache[i][1], p)}

Least(S) == CHOOSE i \in S : \A j \in S : i <= j

\* The segments of a native path text are valid text and none is "." or "..".
PlainSegments(p) ==
    LET pieces == Split(p, "/")
    IN  \A k \in 1..Len(pieces) :
            /\ pieces[k] # <<".">>
            /\ pieces[k] # <<".", ".">>
            /\ \A m \in 1..Len(pieces[k]) : pieces[k][m] # BadByte

RoundTripInput(p) ==
    /\ PlainSegments(p)
    /\ \E i \in Slots : Mapped(i) /\ StrictAncestor(drive_cache[i][1], p)

\* C1: round trip. A native path strictly under a mapped directory, with
\* valid-text segments none of which is "." or "..", converts to a Wine path,
\* that Wine path converts back, and the native path obtained equals the
\* original.
C1_RoundTrip ==
    /\ (op = "to_wine_path" /\ RoundTripInput(arg)) => res.tag = "Ok"
    /\ (op = "to_native_path" /\ origin # None /\ RoundTripInput(origin[1]))
           => (res.tag = "Ok" /\ PathEq(res.val, origin[1]))

\* The segments of a Wine path: the pieces of the text after the head.
Segments(w) == Split(SubSeq(w, 3, Len(w)), "\\")

\* The components a segment contributes when pushed: one per name between
\* its forward slashes.
SegmentComponents(seg) ==
    LET names == SelectSeq(Split(seg, "/"), LAMBDA n : n # <<>> /\ n # <<".">>)
    IN  [k \in 1..Len(names) |->
            IF names[k] = <<".", ".">> THEN ParentDir ELSE Normal(names[k])]

RECURSIVE ComponentsOfAll(_)
ComponentsOfAll(segs) ==
    IF segs = <<>> THEN <<>>
    ELSE SegmentComponents(segs[1]) \o ComponentsOfAll(Tail(segs))

IsAbsolute(seg) == seg # <<>> /\ seg[1] = "/"

\* The components of d pushed with segs: those of d and of every segment,
\* unless a segment begins with "/": the last such segment restarts the path
\* at the root.
ExpectedComponents(d, segs) ==
    LET abs == {k \in 1..Len(segs) : IsAbsolute(segs[k])}
        last == IF abs = {} THEN 0 ELSE CHOOSE k \in abs : \A m \in abs : m <= k
    IN  IF last = 0 THEN Components(d) \o ComponentsOfAll(segs)
        ELSE <<RootDir>> \o ComponentsOfAll(SubSeq(segs, last, Len(segs)))

\* C2 as stated: with a valid head whose letter is mapped to d, the result is
\* d's components followed by exactly one component per backslash-delimited
\* segment of the text after the head, in order.
C2_OneComponentPerSegment ==
    (op = "to_native_path" /\ ValidHead(arg) /\ Mapped(SlotOf(arg[1])))
        => LET dc == Components(drive_cache[SlotOf(arg[1])][1])
               rc == Components(res.val)
               segs == Segments(arg)
           IN  /\ res.tag = "Ok"
               /\ Len(rc) = Len(dc) + Len(segs)
               /\ SubSeq(rc, 1, Len(dc)) = dc
               /\ \A k \in 1..Len(segs) : ComponentText(rc[Len(dc) + k]) = segs[k]

\* C2, amended: with a valid head whose letter is mapped to d, the result is
\* d's components followed, segment by segment in order, by the segment's own
\* components (none for an empty or "." segment, one for a plain name, one
\* per name for a segment holding forward slashes), except that a segment
\* beginning with "/" restarts the path at the root.
C2_SegmentComponents ==
    (op = "to_native_path" /\ ValidHead(arg) /\ Mapped(SlotOf(arg[1])))
        => /\ res.tag = "Ok"
           /\ Components(res.val)
                = ExpectedComponents(drive_cache[SlotOf(arg[1])][1], Segments(arg))

\* An empty segment, then two different names, in order.
C2_Witness ==
    /\ op = "to_native_path"
    /\ res.tag = "Ok"
    /\ Segments(arg) = << <<>>, <<"b">>, <<"a">> >>
    /\ Mapped(SlotOf(arg[1]))
    /\ Components(res.val)
         = Components(drive_cache[SlotOf(arg[1])][1]) \o <<Normal(<<"b">>), Normal(<<"a">>)>>

\* The Wine text of components: each one after a backslash.
RECURSIVE Rendered(_)
Rendered(comps) ==
    IF comps = <<>> THEN <<>>
    ELSE <<"\\">> \o ComponentText(comps[1]) \o Rendered(Tail(comps))

\* C3: to_wine_path uses the alphabetically smallest mapped letter whose
\* directory equals the path or is an ancestor of it (not the longest match),
\* and renders the components past that directory; with c mapped to D and d
\* mapped to a directory under D, a path under d's directory gets drive c.
C3_FirstMatch ==
    (op = "to_wine_path" /\ res.tag = "Ok")
        => /\ Matching(arg) # {}
           /\ LET i == Least(Matching(arg))
                  dc == Components(drive_cache[i][1])
                  pc == Components(arg)
              IN  res.val = <<Lower[i + 1], ":">>
                              \o Rendered(SubSeq(pc, Len(dc) + 1, Len(pc)))
           /\ (/\ Mapped(2) /\ Mapped(3)
               /\ StrictAncestor(drive_cache[2][1], drive_cache[3][1])
               /\ AncestorOrEqual(drive_cache[3][1], arg))
                  => (res.val[1] = "c" /\ Len(res.val) > 2)

C3_Witness ==
    /\ op = "to_wine_path"
    /\ res.tag = "Ok"
    /\ Mapped(2) /\ Mapped(3)
    /\ StrictAncestor(drive_cache[2][1], drive_cache[3][1])
    /\ StrictAncestor(drive_cache[3][1], arg)
    /\ res.val[1] = "c"

\* C4 as stated: for every mapped letter L with directory d, to_wine_path(d)
\* is exactly `L:`.
C4_EveryMappedDir ==
    op = "to_wine_path"
        => \A i \in Slots :
               (Mapped(i) /\ arg = drive_cache[i][1]) => res = Ok(<<Lower[i + 1], ":">>)

\* C4, amended: for every mapped letter L with directory d such that no
\* alphabetically smaller mapped letter has a directory equal to d or an
\* ancestor of d, to_wine_path(d) is exactly `L:`.
C4_FirstMappedDir ==
    op = "to_wine_path"
        => \A i \in Slots :
               (/\ Mapped(i)
                /\ arg = drive_cache[i][1]
                /\ \A j \in Slots : (j < i /\ Mapped(j))
                       => ~AncestorOrEqual(drive_cache[j][1], arg))
                   => res = Ok(<<Lower[i + 1], ":">>)

C4_Witness ==
    /\ op = "to_wine_path"
    /\ Mapped(2) /\ Mapped(3)
    /\ arg = drive_cache[3][1]
    /\ ~AncestorOrEqual(drive_cache[2][1], arg)
    /\ res = Ok(<<"d", ":">>)

\* C5: to_wine_path fails with NoDrive exactly when no populated slot holds a
\* directory equal to the path or a whole-component ancestor of it; a shared
\* textual prefix is no match, and no unmapped path comes back as a success.
C5_NoDriveIffNoMatch ==
    op = "to_wine_path"
        => /\ (res = Err(NoDrive)) <=> (Matching(arg) = {})
           /\ res.tag = "Ok" => Matching(arg) # {}

\* A populated directory is a textual prefix of the path, not an ancestor.
C5_Witness ==
    /\ op = "to_wine_path"
    /\ res = Err(NoDrive)
    /\ \E i \in Slots :
           /\ Mapped(i)
           /\ Len(drive_cache[i][1]) < Len(arg)
           /\ SubSeq(arg, 1, Len(drive_cache[i][1])) = drive_cache[i][1]

\* C6: with a valid head, to_native_path fails with NoDrive exactly when the
\* slot of the letter is absent, and the letter's case does not matter: the
\* path with the letter in the other case has the same outcome.
C6_NoDriveIffSlotAbsent ==
    (op = "to_native_path" /\ ValidHead(arg))
        => /\ (res = Err(NoDrive)) <=> ~Mapped(SlotOf(arg[1]))
           /\ res.tag \in {"Ok", "Err"}
           /\ res = to_native_path_inner(drive_cache,
                                         [arg EXCEPT ![1] = OtherCase(arg[1])])

C6_Witness ==
    /\ op = "to_native_path"
    /\ Len(arg) > 2
    /\ arg[1] = "C"
    /\ Mapped(2)
    /\ res.tag = "Ok"

FirstIsPath == Len(argv) >= 1 /\ argv[1] # FlagU /\ argv[1] # FlagW

\* C7 as stated: -u selects to_wine_path, -w selects to_native_path, a path
\* as first argument is converted by to_wine_path, and the path is
\* canonicalized only on the way to to_native_path.
C7_ModeAsStated ==
    (op = "main" /\ cli.conv # "none")
        => /\ (argv[1] = FlagU => cli.conv = "to_wine_path")
           /\ (argv[1] = FlagW => cli.conv = "to_native_path")
           /\ (FirstIsPath => (cli.conv = "to_wine_path" /\ cli.converted = argv[1]))
           /\ (cli.canonicalized <=> cli.conv = "to_native_path")

\* C7, amended: -u selects to_native_path (Wine to native), -w selects
\* to_wine_path (native to Wine), a path as first argument is converted by
\* to_native_path, and the path is canonicalized only on the way to
\* to_wine_path.
C7_ModeSelection ==
    (op = "main" /\ cli.conv # "none")
        => /\ (argv[1] = FlagU =>
                  /\ cli.conv = "to_native_path"
                  /\ res = Unwrap(to_native_path_inner(drive_cache, argv[2])))
           /\ (argv[1] = FlagW =>
                  /\ cli.conv = "to_wine_path"
                  /\ res = Unwrap(to_wine_path_inner(drive_cache, cli.converted)))
           /\ (FirstIsPath =>
                  /\ cli.conv = "to_native_path"
                  /\ cli.converted = argv[1]
                  /\ res = Unwrap(to_native_path_inner(drive_cache, argv[1])))
           /\ (cli.canonicalized <=> cli.conv = "to_wine_path")

C7_Witness ==
    /\ op = "main"
    /\ Len(argv) = 2
    /\ argv[1] = FlagU
    /\ cli.conv = "to_native_path"
    /\ ~cli.canonicalized
    /\ res.tag = "Ok"

Malformed(w) == Len(w) < 2 \/ ~IsLetter(w[1]) \/ w[2] # ":"

\* C8: to_native_path on a string shorter than two characters, or whose
\* first character is no ASCII letter, or whose second is no colon, aborts:
\* it returns neither an error value nor a path, whatever the table holds.
C8_MalformedAborts ==
    (op = "to_native_path" /\ Malformed(arg))
        => (res.tag = "Panic" /\ res.tag # "Err" /\ res.tag # "Ok")

\* Two characters, a mapped letter first, no colon.
C8_Witness ==
    /\ op = "to_native_path"
    /\ Len(arg) >= 2
    /\ arg[1] = "c"
    /\ arg[2] # ":"
    /\ Mapped(2)
    /\ res.tag = "Panic"

\* C9: no call changes the configuration directory or any of the 26 slots,
\* and a call repeated gives the result it gave before.
C9_TableFrozen ==
    [][/\ prefix' = prefix
       /\ drive_cache' = drive_cache
       /\ (op' = op /\ arg' = arg) => res' = res]_vars

\* A to_native_path call that succeeds right after a to_wine_path call that
\* failed.
C9_Witness ==
    /\ prev.op = "to_wine_path"
    /\ prev.tag = "Err"
    /\ op = "to_native_path"
    /\ res.tag = "Ok"
    /\ \E i \in Slots : Mapped(i)

\* C10: with a valid head whose letter is mapped to d, the path returned by
\* to_native_path has d as a whole-component prefix, so to_wine_path of that
\* path never fails with NoDrive.
C10_Containment ==
    /\ (op = "to_native_path" /\ ValidHead(arg) /\ res.tag = "Ok")
           => AncestorOrEqual(drive_cache[SlotOf(arg[1])][1], res.val)
    /\ (op = "to_wine_path" /\ origin # None) => res # Err(NoDrive)

====
